---- MODULE Spec2Model ----
(***************************************************************************)
(* Model of the failing-grades pipeline of src/failing_filter.py (the same *)
(* functions are pasted into src/app.py).  Text is a sequence of           *)
(* one-character strings, so that lower(), strip(), endswith(), float()    *)
(* and text comparison are computed and not assumed.  A DataFrame is a     *)
(* record [columns, rows]: a sequence of labels and a sequence of rows,    *)
(* each row a sequence of cells aligned with the labels (labels may        *)
(* repeat after rename, as in pandas).                                     *)
(***************************************************************************)
EXTENDS Integers, Sequences, FiniteSets

VARIABLES input, threshold, pc, df, student_col, pct_col, course_col,
          failing, summary, err, ret, fcolumns, fcandidates, fresult, series, out

vars == <<input, threshold, pc, df, student_col, pct_col, course_col,
          failing, summary, err, ret, fcolumns, fcandidates, fresult, series, out>>

\* ------------------------------------------------------------------ bounds
MaxRows == 3
MaxHdrRows == 1
MaxCols == 3
MaxCands == 2
MaxTextLen == 4

\* -------------------------------------------------------------------- text
UpperCase == <<"A","B","C","D","E","F","G","H","I","J","K","L","M",
               "N","O","P","Q","R","S","T","U","V","W","X","Y","Z">>
LowerCase == <<"a","b","c","d","e","f","g","h","i","j","k","l","m",
               "n","o","p","q","r","s","t","u","v","w","x","y","z">>
Digits == <<"0","1","2","3","4","5","6","7","8","9">>

Range(s) == {s[i] : i \in 1..Len(s)}

Chars == Range(UpperCase) \cup Range(LowerCase) \cup Range(Digits) \cup {" ", "%", "_"}

PosIn(s, c) == CHOOSE i \in 1..Len(s) : s[i] = c

\* Code point of a character (Python compares text by code point).
Ord == [c \in Chars |->
          IF c = " " THEN 32
          ELSE IF c = "%" THEN 37
          ELSE IF c = "_" THEN 95
          ELSE IF c \in Range(Digits) THEN 47 + PosIn(Digits, c)
          ELSE IF c \in Range(UpperCase) THEN 64 + PosIn(UpperCase, c)
          ELSE 96 + PosIn(LowerCase, c)]

LowerChar == [c \in Chars |->
                IF c \in Range(UpperCase) THEN LowerCase[PosIn(UpperCase, c)] ELSE c]

\* str.lower()
lower(s) == [i \in 1..Len(s) |-> LowerChar[s[i]]]

Min(a, b) == IF a < b THEN a ELSE b

\* a < b on text: lexicographic by code point
TextLess(a, b) ==
    \E i \in 1..(Min(Len(a), Len(b)) + 1) :
        /\ \A k \in 1..(i - 1) : a[k] = b[k]
        /\ \/ i > Len(a) /\ i <= Len(b)
           \/ i <= Len(a) /\ i <= Len(b) /\ Ord[a[i]] < Ord[b[i]]

RECURSIVE lstrip(_)
lstrip(s) == IF s # <<>> /\ Head(s) = " " THEN lstrip(Tail(s)) ELSE s

RECURSIVE rstrip(_)
rstrip(s) == IF s # <<>> /\ s[Len(s)] = " " THEN rstrip(SubSeq(s, 1, Len(s) - 1)) ELSE s

\* str.strip()
strip(s) == rstrip(lstrip(s))

\* str.endswith("%")
endswith_pct(s) == s # <<>> /\ s[Len(s)] = "%"

\* ------------------------------------------------------------------- cells
NA == [kind |-> "na"]
Num(n) == [kind |-> "num", val |-> n]
Text(s) == [kind |-> "text", val |-> s]

isna(x) == x.kind = "na"

\* what float(x_str) accepts over the model's alphabet: a non-empty run of digits
IsFloatText(s) == s # <<>> /\ \A i \in 1..Len(s) : s[i] \in Range(Digits)

RECURSIVE FloatOf(_)
FloatOf(s) == IF s = <<>> THEN 0
              ELSE 10 * FloatOf(SubSeq(s, 1, Len(s) - 1)) + (PosIn(Digits, s[Len(s)]) - 1)

to_num_missing_pct(x) ==
    IF isna(x) THEN NA
    ELSE IF x.kind = "num" THEN Num(x.val)
    ELSE LET x_str == strip(x.val)
         IN  IF IsFloatText(x_str) THEN Num(FloatOf(x_str)) ELSE NA

to_num(x) ==
    IF isna(x) THEN NA
    ELSE IF x.kind = "num" THEN Num(x.val)
    ELSE LET x_str  == strip(x.val)
             x_str2 == IF endswith_pct(x_str)
                       THEN strip(SubSeq(x_str, 1, Len(x_str) - 1))
                       ELSE x_str
         IN  IF IsFloatText(x_str2) THEN Num(FloatOf(x_str2)) ELSE NA

\* s.map(to_num), then pd.to_numeric(errors="coerce"): numbers stay, pd.NA becomes NaN
coerce_percentage(s) == [i \in 1..Len(s) |-> to_num(s[i])]

\* --------------------------------------------------------- column resolver
\* cols = {c.lower(): c for c in df.columns}: a later column overwrites an
\* earlier one with the same lower-case form
colsdict(columns) ==
    [k \in {lower(c) : c \in Range(columns)} |->
        columns[CHOOSE i \in 1..Len(columns) :
                    /\ lower(columns[i]) = k
                    /\ \A j \in (i + 1)..Len(columns) : lower(columns[j]) # k]]

KeyError_without_columns(candidates, columns) ==
    [ok |-> FALSE, type |-> "KeyError", candidates |-> candidates, columns |-> candidates]

\* line 11: the message carries the candidates and list(df.columns)
KeyError(candidates, columns) ==
    [ok |-> FALSE, type |-> "KeyError", candidates |-> candidates, columns |-> columns]

Found(c) == [ok |-> TRUE, col |-> c]

find_first_present_column_order(columns, candidates) ==
    LET hits == {i \in 1..Len(columns) :
                    \E k \in 1..Len(candidates) : lower(candidates[k]) = lower(columns[i])}
    IN  IF hits = {} THEN KeyError(candidates, columns)
        ELSE Found(columns[CHOOSE i \in hits : \A j \in hits : i <= j])

find_first_present(columns, candidates) ==
    LET cols == colsdict(columns)
        hits == {k \in 1..Len(candidates) : lower(candidates[k]) \in DOMAIN cols}
    IN  IF hits = {} THEN KeyError(candidates, columns)
        ELSE Found(cols[lower(candidates[CHOOSE k \in hits : \A j \in hits : k <= j])])

\* ------------------------------------------------------------------ labels
Student == <<"S","t","u","d","e","n","t">>
Name == <<"N","a","m","e">>
StudentName == <<"S","t","u","d","e","n","t"," ","N","a","m","e">>
Pct == <<"P","c","t">>
PCT == <<"P","C","T">>
Percentage == <<"P","e","r","c","e","n","t","a","g","e">>
Percent == <<"P","e","r","c","e","n","t">>
Course == <<"C","o","u","r","s","e">>
CourseName == <<"C","o","u","r","s","e"," ","N","a","m","e">>
Class == <<"C","l","a","s","s">>
Course_SortKey == <<"C","o","u","r","s","e","_","S","o","r","t","K","e","y">>
Total == <<"T","o","t","a","l">>

student_col_cands == <<Student, Name, StudentName>>
pct_col_cands == <<Pct, PCT, Percentage, Percent>>
course_col_cands == <<Course, CourseName, Class>>

\* ------------------------------------------------------------- DataFrames
Frame(columns, rows) == [columns |-> columns, rows |-> rows]

EmptyFrame == Frame(<<>>, <<>>)

Positions(columns, label) == {i \in 1..Len(columns) : columns[i] = label}

\* position of a label that occurs exactly once
Loc(columns, label) == CHOOSE i \in 1..Len(columns) : columns[i] = label

RECURSIVE Flatten(_)
Flatten(ss) == IF ss = <<>> THEN <<>> ELSE Head(ss) \o Flatten(Tail(ss))

RECURSIVE SetToSeq(_)
\* the members of a set of naturals, ascending
SetToSeq(S) == IF S = {} THEN <<>>
               ELSE LET m == CHOOSE x \in S : \A y \in S : x <= y
                    IN  <<m>> \o SetToSeq(S \ {m})

\* df[label] = values
SetColumn(frame, label, values) ==
    LET i == Loc(frame.columns, label)
    IN  Frame(frame.columns,
              [r \in 1..Len(frame.rows) |-> [frame.rows[r] EXCEPT ![i] = values[r]]])

GetColumn(frame, label) ==
    LET i == Loc(frame.columns, label)
    IN  [r \in 1..Len(frame.rows) |-> frame.rows[r][i]]

\* NaN < threshold is False
below_or_equal(x, t) == ~isna(x) /\ x.val <= t

below(x, t) == ~isna(x) /\ x.val < t

\* df[df[pct_col] < threshold]
FilterBelow(frame, label, t) ==
    LET i == Loc(frame.columns, label)
        Keep(row) == below(row[i], t)
    IN  Frame(frame.columns, SelectSeq(frame.rows, Keep))

\* failing.rename(columns={student_col: "Student", course_col: "Course", pct_col: "Pct"})
rename(frame, s_col, c_col, p_col) ==
    Frame([i \in 1..Len(frame.columns) |->
              IF frame.columns[i] = p_col THEN Pct
              ELSE IF frame.columns[i] = c_col THEN Course
              ELSE IF frame.columns[i] = s_col THEN Student
              ELSE frame.columns[i]],
          frame.rows)

\* frame[[labels]]: the columns carrying each label, in the order of the labels
select(frame, labels) ==
    LET idx == Flatten([k \in 1..Len(labels) |->
                           SetToSeq(Positions(frame.columns, labels[k]))])
    IN  Frame([j \in 1..Len(idx) |-> frame.columns[idx[j]]],
              [r \in 1..Len(frame.rows) |->
                  [j \in 1..Len(idx) |-> frame.rows[r][idx[j]]]])

\* ----------------------------------------------------------------- sorting
ValLess(a, b) == IF a.kind = "num" THEN a.val < b.val ELSE TextLess(a.val, b.val)

\* the order of two cells under one sort key; NaN sorts last (na_position="last")
CellBefore(a, b, asc) ==
    IF isna(a) THEN FALSE
    ELSE IF isna(b) THEN TRUE
    ELSE IF asc THEN ValLess(a, b) ELSE ValLess(b, a)

RECURSIVE RowBefore(_, _, _)
RowBefore(r1, r2, keys) ==
    IF keys = <<>> THEN FALSE
    ELSE LET k == Head(keys)
         IN  IF r1[k.col] = r2[k.col] THEN RowBefore(r1, r2, Tail(keys))
             ELSE CellBefore(r1[k.col], r2[k.col], k.asc)

RECURSIVE InsertRow(_, _, _)
InsertRow(sorted, r, keys) ==
    IF sorted = <<>> THEN <<r>>
    ELSE IF RowBefore(r, Head(sorted), keys) THEN <<r>> \o sorted
    ELSE <<Head(sorted)>> \o InsertRow(Tail(sorted), r, keys)

RECURSIVE SortRows(_, _)
\* stable sort (pandas sorts several keys with a stable lexsort)
SortRows(rows, keys) ==
    IF rows = <<>> THEN <<>>
    ELSE InsertRow(SortRows(SubSeq(rows, 1, Len(rows) - 1), keys), rows[Len(rows)], keys)

\* sort_values looks each key up by label and raises ValueError ("The column
\* label ... is not unique") when more than one column carries it, as happens
\* after rename when the table also has a case variant of the resolved column
Sortable(frame, by) == \A k \in 1..Len(by) : Cardinality(Positions(frame.columns, by[k])) = 1

ValueError(label) == [ok |-> FALSE, type |-> "ValueError", label |-> label]

FirstAmbiguous(frame, by) ==
    by[CHOOSE k \in 1..Len(by) :
          /\ Cardinality(Positions(frame.columns, by[k])) # 1
          /\ \A j \in 1..(k - 1) : Cardinality(Positions(frame.columns, by[j])) = 1]

sort_values(frame, by, ascending) ==
    Frame(frame.columns,
          SortRows(frame.rows,
                   [k \in 1..Len(by) |->
                       [col |-> Loc(frame.columns, by[k]), asc |-> ascending[k]]]))

\* ------------------------------------------------------------------- pivot
\* failing["Course"].astype(str): text stays, NaN becomes the text "nan"
\* (the Course column of the model holds text or missing cells only)
astype_str(x) == IF isna(x) THEN Text(<<"n","a","n">>) ELSE x

AddColumn(frame, label, values) ==
    Frame(Append(frame.columns, label),
          [r \in 1..Len(frame.rows) |-> Append(frame.rows[r], values[r])])

\* failing.drop(columns=["Course_SortKey"], errors="ignore")
drop(frame, label) ==
    LET idx == SetToSeq({i \in 1..Len(frame.columns) : frame.columns[i] # label})
    IN  Frame([j \in 1..Len(idx) |-> frame.columns[idx[j]]],
              [r \in 1..Len(frame.rows) |->
                  [j \in 1..Len(idx) |-> frame.rows[r][idx[j]]]])

RECURSIVE SortTexts(_)
\* a set of text cells, ascending
SortTexts(S) == IF S = {} THEN <<>>
                ELSE LET m == CHOOSE x \in S : \A y \in S \ {x} : TextLess(x.val, y.val)
                     IN  <<m>> \o SortTexts(S \ {m})

\* groupby("Student"): the group keys; a missing key forms no group (dropna=True)
group_keys(frame) == {x \in Range(GetColumn(frame, Student)) : ~isna(x)}

\* ["Course"].apply(list) for one group: its Course cells in frame order
courses_of(frame, key) ==
    LET s == Loc(frame.columns, Student)
        c == Loc(frame.columns, Course)
        Mine(row) == row[s] = key
        mine == SelectSeq(frame.rows, Mine)
    IN  [i \in 1..Len(mine) |-> mine[i][c]]

\* course_lists: one entry per group, in ascending key order
course_lists(frame) ==
    LET keys == SortTexts(group_keys(frame))
    IN  [g \in 1..Len(keys) |-> [student |-> keys[g], courses |-> courses_of(frame, keys[g])]]

MaxOf(S) == CHOOSE x \in S : \A y \in S : y <= x

\* max_courses = totals.max() if len(totals) else 0
max_courses(lists) ==
    IF Len(lists) # 0 THEN MaxOf({Len(lists[g].courses) : g \in 1..Len(lists)}) ELSE 0

RECURSIVE IntToText(_)
IntToText(n) == IF n < 10 THEN <<Digits[n + 1]>>
                ELSE IntToText(n \div 10) \o <<Digits[(n % 10) + 1]>>

\* f"Course {i}"
CourseLabel(i) == <<"C","o","u","r","s","e"," ">> \o IntToText(i)

summary_row_unpadded(student, courses, maxc) ==
    <<<<Student, student>>, <<Total, Num(Len(courses))>>>>
      \o [i \in 1..Len(courses) |-> <<CourseLabel(i), courses[i]>>]

summary_row_total_is_max(student, courses, maxc) ==
    <<<<Student, student>>, <<Total, Num(maxc)>>>>
      \o [i \in 1..Len(courses) |-> <<CourseLabel(i), courses[i]>>]
      \o [i \in 1..(maxc - Len(courses)) |-> <<CourseLabel(Len(courses) + i), Text(<<>>)>>]

\* one dict of `data`, as its (key, value) pairs in insertion order
summary_row(student, courses, maxc) ==
    <<<<Student, student>>, <<Total, Num(Len(courses))>>>>
      \o [i \in 1..Len(courses) |-> <<CourseLabel(i), courses[i]>>]
      \o [i \in 1..(maxc - Len(courses)) |-> <<CourseLabel(Len(courses) + i), Text(<<>>)>>]

RECURSIVE Dedupe(_)
\* keys in order of first appearance
Dedupe(s) == IF s = <<>> THEN <<>>
             ELSE LET rest == Dedupe(SubSeq(s, 1, Len(s) - 1))
                  IN  IF s[Len(s)] \in Range(rest) THEN rest ELSE Append(rest, s[Len(s)])

DictGet(d, key) ==
    IF \E i \in 1..Len(d) : d[i][1] = key
    THEN d[CHOOSE i \in 1..Len(d) : d[i][1] = key][2]
    ELSE NA

\* pd.DataFrame(data): the columns are the dicts' keys in order of first
\* appearance; a key a dict lacks gives NaN; no dict gives no column
DataFrame(data) ==
    LET columns == Dedupe(Flatten([r \in 1..Len(data) |->
                                      [i \in 1..Len(data[r]) |-> data[r][i][1]]]))
    IN  Frame(columns,
              [r \in 1..Len(data) |->
                  [j \in 1..Len(columns) |-> DictGet(data[r], columns[j])]])

build_summary(frame) ==
    LET lists == course_lists(frame)
        maxc  == max_courses(lists)
    IN  DataFrame([g \in 1..Len(lists) |->
                      summary_row(lists[g].student, lists[g].courses, maxc)])

\* DataFrame.empty
empty(frame) == Len(frame.rows) = 0 \/ Len(frame.columns) = 0

sort_failing_by_course_first(frame) ==
    sort_values(frame, <<Course_SortKey, Student, Pct>>, <<TRUE, TRUE, TRUE>>)

\* failing.sort_values(["Student", "Course_SortKey", "Pct"], ascending=[True, True, True])
sort_failing(frame) ==
    sort_values(frame, <<Student, Course_SortKey, Pct>>, <<TRUE, TRUE, TRUE>>)

sort_summary_by_student_only(frame) ==
    IF ~empty(frame) THEN sort_values(frame, <<Student>>, <<TRUE>>) ELSE frame

\* if not summary.empty: summary.sort_values(["Total", "Student"], ascending=[False, True])
sort_summary(frame) ==
    IF ~empty(frame) THEN sort_values(frame, <<Total, Student>>, <<FALSE, TRUE>>) ELSE frame

\* ------------------------------------------------------------------ inputs
Al == <<"A","l">>
Bo == <<"B","o">>
Art == <<"A","r","t">>
zoo == <<"z","o","o">>
Extra == <<"E","x","t","r","a">>
name_lc == <<"n","a","m","e">>
COURSE_uc == <<"C","O","U","R","S","E">>
pct_lc == <<"p","c","t">>
STUDENT_uc == <<"S","T","U","D","E","N","T">>

Thresholds == {60, 65}

SeqsUpTo(S, n) == UNION {[1..k -> S] : k \in 0..n}

\* rows of a table with the canonical header <<Student, Course, Pct>>
CanonRows ==
    { <<Text(Al), Text(Art), Num(50)>>,
      <<Text(Al), Text(zoo), Num(50)>>,
      <<Text(Bo), Text(Art), Num(50)>>,
      <<Text(Bo), Text(zoo), Text(<<" ","6","4"," ","%"," ">>)>>,
      <<NA,       Text(Art), Num(50)>>,
      <<Text(Al), NA,        Num(50)>>,
      <<Text(Al), Text(Art), Num(60)>>,
      <<Text(Bo), Text(Art), Num(65)>>,
      <<Text(Al), Text(zoo), NA>>,
      <<Text(Bo), Text(zoo), Text(<<"x">>)>> }

HeaderSets ==
    { <<name_lc, COURSE_uc, pct_lc>>,
      <<Extra, Percent, Class, StudentName>>,
      <<Name, Student, Course, Pct>>,
      <<Course, Pct>>,
      <<Student, Course>>,
      <<Student, Pct>>,
      <<Extra>>,
      <<Student, Course, Pct, PCT>>,
      <<PCT, Student, Course, Pct>>,
      <<Student, STUDENT_uc, Course, Pct>>,
      <<Student, Course, COURSE_uc, Pct>> }

LowerSet(cands) == {lower(cands[k]) : k \in 1..Len(cands)}

HdrCells(label) ==
    IF lower(label) \in LowerSet(student_col_cands) THEN {Text(Al), Text(Bo)}
    ELSE IF lower(label) \in LowerSet(course_col_cands) THEN {Text(Art), Text(zoo)}
    ELSE IF lower(label) \in LowerSet(pct_col_cands) THEN {Num(50), Num(65)}
    ELSE {Text(Extra)}

AllHdrCells == {Text(Al), Text(Bo), Text(Art), Text(zoo), Num(50), Num(65), Text(Extra)}

HdrRows(h) == {r \in [1..Len(h) -> AllHdrCells] : \A i \in 1..Len(h) : r[i] \in HdrCells(h[i])}

Tables ==
    {Frame(<<Student, Course, Pct>>, rows) : rows \in SeqsUpTo(CanonRows, MaxRows)}
      \cup UNION {{Frame(h, rows) : rows \in SeqsUpTo(HdrRows(h), MaxHdrRows)} : h \in HeaderSets}

NoError == [ok |-> TRUE, type |-> "none"]
NotReturned == [returned |-> FALSE]
Returned(f, s) == [returned |-> TRUE, failing_rows |-> f, summary |-> s]

\* ---------------------------------------------------------- summarize_failing
Init ==
    /\ input \in Tables
    /\ threshold \in Thresholds
    /\ pc = "start"
    /\ df = EmptyFrame
    /\ student_col = <<>>
    /\ pct_col = <<>>
    /\ course_col = <<>>
    /\ failing = EmptyFrame
    /\ summary = EmptyFrame
    /\ err = NoError
    /\ ret = NotReturned
    /\ fcolumns = <<>>
    /\ fcandidates = <<>>
    /\ fresult = NoError
    /\ series = <<>>
    /\ out = <<>>

Aux == <<fcolumns, fcandidates, fresult, series, out>>

\* lines 39-41: the three lookups, in this order; the first that fails raises
Resolve ==
    /\ pc = "start"
    /\ LET s == find_first_present(input.columns, student_col_cands)
           p == find_first_present(input.columns, pct_col_cands)
           c == find_first_present(input.columns, course_col_cands)
       IN  /\ student_col' = IF s.ok THEN s.col ELSE student_col
           /\ pct_col' = IF s.ok /\ p.ok THEN p.col ELSE pct_col
           /\ course_col' = IF s.ok /\ p.ok /\ c.ok THEN c.col ELSE course_col
           /\ err' = IF ~s.ok THEN s ELSE IF ~p.ok THEN p ELSE IF ~c.ok THEN c ELSE err
           /\ pc' = IF s.ok /\ p.ok /\ c.ok THEN "resolved" ELSE "raised"
    /\ UNCHANGED <<input, threshold, df, failing, summary, ret, Aux>>

\* lines 44-45
Clean ==
    /\ pc = "resolved"
    /\ df' = SetColumn(input, pct_col, coerce_percentage(GetColumn(input, pct_col)))
    /\ pc' = "cleaned"
    /\ UNCHANGED <<input, threshold, student_col, pct_col, course_col,
                   failing, summary, err, ret, Aux>>

\* line 48
Filter ==
    /\ pc = "cleaned"
    /\ failing' = FilterBelow(df, pct_col, threshold)
    /\ pc' = "filtered"
    /\ UNCHANGED <<input, threshold, df, student_col, pct_col, course_col,
                   summary, err, ret, Aux>>

\* lines 50-51
Project ==
    /\ pc = "filtered"
    /\ LET renamed == rename(failing, student_col, course_col, pct_col)
           proj    == select(renamed, <<Student, Course, Pct>>)
       IN  IF Sortable(proj, <<Student, Course>>)
           THEN /\ failing' = sort_values(proj, <<Student, Course>>, <<TRUE, TRUE>>)
                /\ pc' = "projected"
                /\ err' = err
           ELSE /\ failing' = renamed
                /\ pc' = "raised"
                /\ err' = ValueError(FirstAmbiguous(proj, <<Student, Course>>))
    /\ UNCHANGED <<input, threshold, df, student_col, pct_col, course_col,
                   summary, ret, Aux>>

\* lines 55-57
SortKey ==
    /\ pc = "projected"
    /\ LET keyed == AddColumn(failing, Course_SortKey,
                              [r \in 1..Len(failing.rows) |->
                                  astype_str(GetColumn(failing, Course)[r])])
       IN  IF Sortable(keyed, <<Student, Course_SortKey, Pct>>)
           THEN /\ failing' = sort_failing(keyed)
                /\ pc' = "sorted"
                /\ err' = err
           ELSE /\ failing' = keyed
                /\ pc' = "raised"
                /\ err' = ValueError(FirstAmbiguous(keyed, <<Student, Course_SortKey, Pct>>))
    /\ UNCHANGED <<input, threshold, df, student_col, pct_col, course_col,
                   summary, ret, Aux>>

\* lines 59-76
Pivot ==
    /\ pc = "sorted"
    /\ summary' = build_summary(failing)
    /\ pc' = "pivoted"
    /\ UNCHANGED <<input, threshold, df, student_col, pct_col, course_col,
                   failing, err, ret, Aux>>

\* lines 80-81
SortSummary ==
    /\ pc = "pivoted"
    /\ summary' = sort_summary(summary)
    /\ pc' = "summarised"
    /\ UNCHANGED <<input, threshold, df, student_col, pct_col, course_col,
                   failing, err, ret, Aux>>

\* line 83
Return ==
    /\ pc = "summarised"
    /\ ret' = Returned(drop(failing, Course_SortKey), summary)
    /\ pc' = "done"
    /\ UNCHANGED <<input, threshold, df, student_col, pct_col, course_col,
                   failing, summary, err, Aux>>

Next == Resolve \/ Clean \/ Filter \/ Project \/ SortKey \/ Pivot \/ SortSummary \/ Return

Spec == Init /\ [][Next]_vars

\* ------------------------------------------------------ find_first_present
ColumnPool == {Student, STUDENT_uc, Name, name_lc, Pct, PCT, Extra}

CandidatePool == {Student, Name, Pct, PCT}

\* column labels of one table are distinct
ColumnLists == {c \in SeqsUpTo(ColumnPool, MaxCols) :
                   \A i, j \in 1..Len(c) : i # j => c[i] # c[j]}

InitFind ==
    /\ fcolumns \in ColumnLists
    /\ fcandidates \in SeqsUpTo(CandidatePool, MaxCands)
    /\ fresult = NoError
    /\ pc = "find"
    /\ input = EmptyFrame
    /\ threshold = 65
    /\ df = EmptyFrame
    /\ student_col = <<>>
    /\ pct_col = <<>>
    /\ course_col = <<>>
    /\ failing = EmptyFrame
    /\ summary = EmptyFrame
    /\ err = NoError
    /\ ret = NotReturned
    /\ series = <<>>
    /\ out = <<>>

Find ==
    /\ pc = "find"
    /\ fresult' = find_first_present(fcolumns, fcandidates)
    /\ pc' = "found"
    /\ UNCHANGED <<input, threshold, df, student_col, pct_col, course_col, failing,
                   summary, err, ret, fcolumns, fcandidates, series, out>>

NextFind == Find

SpecFind == InitFind /\ [][NextFind]_vars

\* ------------------------------------------------------- coerce_percentage
CoerceAlphabet == {" ", "%", "6", "5", "x"}

CoerceCells ==
    {NA, Num(0), Num(65)} \cup {Text(s) : s \in SeqsUpTo(CoerceAlphabet, MaxTextLen)}

SeriesInputs ==
    {<<>>} \cup {<<x>> : x \in CoerceCells}
           \cup {<<y, x>> : y \in {NA, Num(65)}, x \in CoerceCells}

InitCoerce ==
    /\ series \in SeriesInputs
    /\ out = <<>>
    /\ pc = "coerce"
    /\ input = EmptyFrame
    /\ threshold = 65
    /\ df = EmptyFrame
    /\ student_col = <<>>
    /\ pct_col = <<>>
    /\ course_col = <<>>
    /\ failing = EmptyFrame
    /\ summary = EmptyFrame
    /\ err = NoError
    /\ ret = NotReturned
    /\ fcolumns = <<>>
    /\ fcandidates = <<>>
    /\ fresult = NoError

Coerce ==
    /\ pc = "coerce"
    /\ out' = coerce_percentage(series)
    /\ pc' = "coerced"
    /\ UNCHANGED <<input, threshold, df, student_col, pct_col, course_col, failing,
                   summary, err, ret, fcolumns, fcandidates, fresult, series>>

NextCoerce == Coerce

SpecCoerce == InitCoerce /\ [][NextCoerce]_vars

\* ------------------------------------------------------------------ claims
Matches(columns, cands) ==
    \E k \in 1..Len(cands) : \E i \in 1..Len(columns) : lower(cands[k]) = lower(columns[i])

AllResolved ==
    /\ Matches(input.columns, student_col_cands)
    /\ Matches(input.columns, pct_col_cands)
    /\ Matches(input.columns, course_col_cands)

Count(seq, x) == Cardinality({i \in 1..Len(seq) : seq[i] = x})

\* the (Student, Course, coerced percentage) of an input row, read from the resolved columns
InputTriple(r) ==
    << r[Loc(input.columns, student_col)],
       r[Loc(input.columns, course_col)],
       to_num(r[Loc(input.columns, pct_col)]) >>

IsFailingTriple(t) == t[3].kind = "num" /\ t[3].val < threshold

FailingRows == ret.failing_rows.rows

SummaryRows == ret.summary.rows

\* C1: a row of the input is in FailingRows exactly when its coerced percentage
\* is a number strictly below the threshold (as many times as it occurs in the
\* input); a row at the threshold or with a missing percentage is not.
C1_FailingIffBelowThreshold ==
    ret.returned =>
        \A t \in {InputTriple(input.rows[i]) : i \in 1..Len(input.rows)} \cup Range(FailingRows) :
            Count(FailingRows, t) =
                Cardinality({i \in 1..Len(input.rows) :
                                /\ InputTriple(input.rows[i]) = t
                                /\ IsFailingTriple(t)})

C1_Witness ==
    /\ ret.returned
    /\ \E i \in 1..Len(input.rows) : InputTriple(input.rows[i])[3] = Num(threshold)
    /\ \E i \in 1..Len(input.rows) : isna(InputTriple(input.rows[i])[3])
    /\ Len(FailingRows) >= 1

\* C2: find_first_present returns a column of the table whose lower-case form
\* equals that of the earliest candidate that matches any column, whatever
\* the order of the columns; it fails exactly when no candidate matches.
C2_FirstCandidateWins ==
    pc = "found" =>
        LET hits == {k \in 1..Len(fcandidates) :
                        \E i \in 1..Len(fcolumns) : lower(fcolumns[i]) = lower(fcandidates[k])}
        IN  IF hits = {} THEN ~fresult.ok
            ELSE /\ fresult.ok
                 /\ fresult.col \in Range(fcolumns)
                 /\ \E k \in hits : /\ \A j \in hits : k <= j
                                    /\ lower(fresult.col) = lower(fcandidates[k])

\* two candidates are present, the column of the second comes first in the
\* table, and the match is by case only
C2_Witness ==
    /\ pc = "found"
    /\ fresult.ok
    /\ Len(fcandidates) = 2
    /\ Len(fcolumns) >= 2
    /\ lower(fcolumns[1]) = lower(fcandidates[2])
    /\ lower(fcolumns[2]) = lower(fcandidates[1])
    /\ lower(fcandidates[1]) # lower(fcandidates[2])
    /\ fresult.col = fcolumns[2]
    /\ fresult.col # fcandidates[1]

FirstUnresolved ==
    IF ~Matches(input.columns, student_col_cands) THEN student_col_cands
    ELSE IF ~Matches(input.columns, pct_col_cands) THEN pct_col_cands
    ELSE course_col_cands

\* C3: when a role has no matching column, summarize_failing raises the
\* column-not-found error (KeyError) carrying the candidate list of the role
\* whose lookup failed (the first such role in the order Student, Percentage,
\* Course) and the table's columns, and neither table is produced.
C3_ColumnNotFound ==
    (pc # "start" /\ ~AllResolved) =>
        /\ pc = "raised"
        /\ err.type = "KeyError"
        /\ err.candidates = FirstUnresolved
        /\ err.columns = input.columns
        /\ ret = NotReturned
        /\ failing = EmptyFrame
        /\ summary = EmptyFrame

C3_Witness ==
    /\ pc = "raised"
    /\ Matches(input.columns, student_col_cands)
    /\ ~Matches(input.columns, pct_col_cands)
    /\ err.type = "KeyError"
    /\ err.candidates = pct_col_cands

\* the text forms that hold a number: spaces, a run of digits, spaces, and
\* optionally one "%" followed by spaces
NumericForm(s, i, j) ==
    /\ i <= j
    /\ \A k \in 1..(i - 1) : s[k] = " "
    /\ \A k \in i..j : s[k] \in Range(Digits)
    /\ \E p \in (j + 1)..(Len(s) + 1) :
          /\ p <= Len(s) => s[p] = "%"
          /\ \A k \in (j + 1)..Len(s) : k # p => s[k] = " "

RECURSIVE DecimalValue(_, _, _)
DecimalValue(s, i, j) ==
    IF i > j THEN 0 ELSE (Ord[s[j]] - 48) + 10 * DecimalValue(s, i, j - 1)

Coerced(x, y) ==
    IF x.kind = "na" THEN y = NA
    ELSE IF x.kind = "num" THEN y = Num(x.val)
    ELSE IF \E i, j \in 1..Len(x.val) : NumericForm(x.val, i, j)
         THEN \E i, j \in 1..Len(x.val) :
                 NumericForm(x.val, i, j) /\ y = Num(DecimalValue(x.val, i, j))
         ELSE y = NA

\* C4: every cell is coerced to a number or to missing: a number stays, a
\* numeric text (with optional trailing "%" and padding whitespace) gives its
\* number, a missing cell or any other text gives missing.
C4_CoerceTotal ==
    pc = "coerced" =>
        /\ Len(out) = Len(series)
        /\ \A i \in 1..Len(series) : Coerced(series[i], out[i])

C4_Witness ==
    /\ pc = "coerced"
    /\ series = <<NA, Text(<<"6", " ", "%", " ">>)>>
    /\ out = <<NA, Num(6)>>

RECURSIVE SumTotals(_)
SumTotals(rows) == IF rows = <<>> THEN 0 ELSE Head(rows)[2].val + SumTotals(Tail(rows))

\* the positions in FailingRows of the records of one student
RecordsOf(student) == {i \in 1..Len(FailingRows) : FailingRows[i][1] = student}

MaxTotal == IF SummaryRows = <<>> THEN 0
            ELSE MaxOf({SummaryRows[g][2].val : g \in 1..Len(SummaryRows)})

\* C5: each Summary row is <<Student, Total, Course 1 .. Course N>> with
\* Total the number of the student's records in FailingRows, the first Total
\* courses those records' courses in FailingRows order, the rest "" up to
\* N = the largest Total of the run.
C5_SummaryRowContents ==
    ret.returned =>
        /\ SummaryRows # <<>> =>
              ret.summary.columns =
                  <<Student, Total>> \o [i \in 1..MaxTotal |-> CourseLabel(i)]
        /\ \A g \in 1..Len(SummaryRows) :
              LET row  == SummaryRows[g]
                  mine == SetToSeq(RecordsOf(row[1]))
              IN  /\ Len(row) = 2 + MaxTotal
                  /\ row[2] = Num(Len(mine))
                  /\ \A k \in 1..Len(mine) : row[2 + k] = FailingRows[mine[k]][2]
                  /\ \A k \in (Len(mine) + 1)..MaxTotal : row[2 + k] = Text(<<>>)

C5_Witness ==
    /\ ret.returned
    /\ Len(SummaryRows) = 2
    /\ SummaryRows[1][2] = Num(2)
    /\ SummaryRows[1][3] # SummaryRows[1][4]
    /\ SummaryRows[2][2] = Num(1)
    /\ SummaryRows[2][4] = Text(<<>>)

\* C6: consecutive Summary rows are ordered by Total descending, and by
\* Student ascending when the Totals are equal.
C6_SummaryOrdered ==
    ret.returned =>
        \A g \in 1..(Len(SummaryRows) - 1) :
            LET r1 == SummaryRows[g]
                r2 == SummaryRows[g + 1]
            IN  \/ r1[2].val > r2[2].val
                \/ /\ r1[2].val = r2[2].val
                   /\ (TextLess(r1[1].val, r2[1].val) \/ r1[1].val = r2[1].val)

C6_Witness ==
    /\ ret.returned
    /\ Len(SummaryRows) = 2
    /\ SummaryRows[1][1] = Text(Bo)
    /\ SummaryRows[1][2] = Num(2)
    /\ SummaryRows[2][1] = Text(Al)

TripleLeq(a, b) ==
    \/ TextLess(a[1].val, b[1].val)
    \/ /\ a[1].val = b[1].val
       /\ \/ TextLess(a[2].val, b[2].val)
          \/ a[2].val = b[2].val /\ a[3].val <= b[3].val

Named(row) == row[1].kind = "text" /\ row[2].kind = "text"

\* C7: FailingRows is sorted ascending by (Student, Course, Pct), text compared
\* as text and Pct as a number: of any two rows that both carry a Student and
\* a Course, the earlier one has the smaller or equal triple.
C7_FailingRowsSorted ==
    ret.returned =>
        \A i, j \in 1..Len(FailingRows) :
            (i < j /\ Named(FailingRows[i]) /\ Named(FailingRows[j]))
                => TripleLeq(FailingRows[i], FailingRows[j])

C7_Witness ==
    /\ ret.returned
    /\ input.rows = << <<Text(Bo), Text(Art), Num(50)>>,
                       <<Text(Al), Text(Art), Num(60)>>,
                       <<Text(Al), Text(Art), Num(50)>> >>
    /\ FailingRows = << <<Text(Al), Text(Art), Num(50)>>,
                        <<Text(Al), Text(Art), Num(60)>>,
                        <<Text(Bo), Text(Art), Num(50)>> >>

\* C8: on every input table whose three roles resolve, summarize_failing
\* returns a FailingRows table with the columns <<Student, Course, Pct>>, each
\* row holding the resolved student, course and (coerced) percentage cells of
\* an input row; no other original column is kept.
C8_FailingRowsColumns ==
    (pc \in {"done", "raised"} /\ AllResolved) =>
        /\ ret.returned
        /\ ret.failing_rows.columns = <<Student, Course, Pct>>
        /\ \A r \in 1..Len(FailingRows) :
              /\ Len(FailingRows[r]) = 3
              /\ \E i \in 1..Len(input.rows) : FailingRows[r] = InputTriple(input.rows[i])

\* a label of the form "Course <i>"
IsCourseColumn(label) ==
    Len(label) > 7 /\ SubSeq(label, 1, 7) = <<"C","o","u","r","s","e"," ">>

NoFailingRow ==
    \A i \in 1..Len(input.rows) :
        LET x == to_num(input.rows[i][Loc(input.columns, pct_col)])
        IN  ~(x.kind = "num" /\ x.val < threshold)

\* C9: when all three roles resolve and no input row is below the threshold,
\* summarize_failing returns without error a FailingRows with no row and a
\* Summary with no row and no "Course i" column.
C9_EmptyFailingSet ==
    (pc \in {"done", "raised"} /\ AllResolved /\ NoFailingRow) =>
        /\ pc = "done"
        /\ ret.returned
        /\ FailingRows = <<>>
        /\ SummaryRows = <<>>
        /\ \A i \in 1..Len(ret.summary.columns) : ~IsCourseColumn(ret.summary.columns[i])

\* Whenever summarize_failing does return, FailingRows has the columns
\* <<Student, Course, Pct>> and each row is the resolved triple of an input row.
FailingRowsColumnsWhenReturned ==
    ret.returned =>
        /\ ret.failing_rows.columns = <<Student, Course, Pct>>
        /\ \A r \in 1..Len(FailingRows) :
              /\ Len(FailingRows[r]) = 3
              /\ \E i \in 1..Len(input.rows) : FailingRows[r] = InputTriple(input.rows[i])

\* When summarize_failing does return and no input row is below the threshold,
\* both tables are empty and the Summary has no column.
EmptyFailingSetWhenReturned ==
    (ret.returned /\ NoFailingRow) =>
        /\ FailingRows = <<>>
        /\ ret.summary = EmptyFrame

\* C10 as stated: the Students of the Summary are the Students of
\* FailingRows and the Totals add up to the number of FailingRows rows.
C10_EveryFailingRowCounted ==
    ret.returned =>
        /\ {SummaryRows[g][1] : g \in 1..Len(SummaryRows)}
              = {FailingRows[i][1] : i \in 1..Len(FailingRows)}
        /\ SumTotals(SummaryRows) = Len(FailingRows)

\* C10 amended: the Summary has one row per distinct non-missing Student of
\* FailingRows, each with Total >= 1, and the Totals add up to the number of
\* FailingRows rows whose Student is not missing (rows with a missing Student
\* are in FailingRows and in no Summary row).
C10_EveryNamedFailingRowCounted ==
    ret.returned =>
        /\ {SummaryRows[g][1] : g \in 1..Len(SummaryRows)}
              = {FailingRows[i][1] : i \in {k \in 1..Len(FailingRows) : ~isna(FailingRows[k][1])}}
        /\ \A g, h \in 1..Len(SummaryRows) : SummaryRows[g][1] = SummaryRows[h][1] => g = h
        /\ \A g \in 1..Len(SummaryRows) : SummaryRows[g][2].val >= 1
        /\ SumTotals(SummaryRows)
              = Cardinality({k \in 1..Len(FailingRows) : ~isna(FailingRows[k][1])})

C10_Witness ==
    /\ ret.returned
    /\ \E i \in 1..Len(FailingRows) : isna(FailingRows[i][1])
    /\ Len(SummaryRows) = 2

====
